---- MODULE Spec2Model ----
(***************************************************************************)
(* Model of src/src/app.py: the FastAPI email gateway.                     *)
(*                                                                         *)
(*   POST /send-email  -> send_email(req: EmailRequest)   (app.py 40-90)   *)
(*   GET  /test-aws    -> test_aws()                      (app.py 94-104)  *)
(*                                                                         *)
(* One request is handled at a time (the handlers share no mutable state). *)
(* Text is a sequence of one-character strings, so that strip(), split()   *)
(* and slicing are computed as Python computes them.  Fixed message texts  *)
(* are kept as single chunks inside such a sequence.                       *)
(***************************************************************************)
EXTENDS Integers, Sequences, FiniteSets, TLC

VARIABLES env, pc, op, raw, req, source_email, domain, mxOut, sendOut,
          probe, mxCalls, sendCalls, getCalls, resp

vars == <<env, pc, op, raw, req, source_email, domain, mxOut, sendOut,
          probe, mxCalls, sendCalls, getCalls, resp>>

----------------------------------------------------------------------------
(* Bounds of the model. *)

MaxTextLen == 2
MaxEmailLen == 5
MaxOver == 2

(* r.text[:100], app.py line 102 *)
TextLimit == 100

----------------------------------------------------------------------------
(* Text helpers. *)

Min(a, b) == IF a < b THEN a ELSE b

SeqsUpTo(A, n) == UNION {[1..k -> A] : k \in 0..n}

(* The characters str.strip() removes (those of them the inputs draw on). *)
Whitespace == {" ", "\t", "\n"}

RECURSIVE LStrip(_)
LStrip(s) == IF s # <<>> /\ Head(s) \in Whitespace THEN LStrip(Tail(s)) ELSE s

RECURSIVE RStrip(_)
RStrip(s) ==
    IF s # <<>> /\ s[Len(s)] \in Whitespace
    THEN RStrip(SubSeq(s, 1, Len(s) - 1))
    ELSE s

(* A variant of Strip: nothing is removed. *)
StripNothing(s) == s

(* str.strip(): leading and trailing whitespace removed. *)
Strip(s) == RStrip(LStrip(s))

(* Python truthiness of a str: not s  <=>  s == "". *)
Falsy(s) == s = <<>>

(* str.split(sep) for a one-character separator: the list of pieces. *)
RECURSIVE Split(_, _)
Split(s, sep) ==
    IF \A i \in 1..Len(s) : s[i] # sep
    THEN <<s>>
    ELSE LET i == CHOOSE k \in 1..Len(s) :
                      s[k] = sep /\ \A j \in 1..(k - 1) : s[j] # sep
         IN <<SubSeq(s, 1, i - 1)>> \o Split(SubSeq(s, i + 1, Len(s)), sep)

(* A variant of Slice: one character too many. *)
SliceInclusive(s, n) == SubSeq(s, 1, Min(Len(s), n + 1))

(* s[:n] *)
Slice(s, n) == SubSeq(s, 1, Min(Len(s), n))

----------------------------------------------------------------------------
(* Process environment (os.getenv). *)

Unset == [set |-> FALSE, value |-> <<>>]
SetTo(v) == [set |-> TRUE, value |-> v]

(* A variant of Getenv: the value is turned into text before it is tested, *)
(* so that an unset variable reads "None".                                 *)
GetenvAsText(var) == IF var.set THEN var.value ELSE <<"None">>

(* os.getenv(name): the value, or None (modelled as the empty text, which  *)
(* is as falsy as None) when the variable is unset.                        *)
Getenv(var) == IF var.set THEN var.value ELSE <<>>

(* os.getenv(name, default) *)
GetenvDefault(var, default) == IF var.set THEN var.value ELSE default

SourceEmails == {Unset, SetTo(<<>>), SetTo(<<"s", "@", "x", ".", "y">>)}
Regions == {Unset, SetTo(<<"eu-west-1">>)}

(* region = os.getenv("AWS_REGION", "us-east-1") *)
region == GetenvDefault(env.AWS_REGION, <<"us-east-1">>)

----------------------------------------------------------------------------
(* The request body and its validation into an EmailRequest. *)

TextAlphabet == {"a", " "}
EmailAlphabet == {"a", "@", "."}

Texts == SeqsUpTo(TextAlphabet, MaxTextLen)
Addresses == SeqsUpTo(EmailAlphabet, MaxEmailLen)

Bodies == [receiver_email : Addresses, subject : Texts, body_text : Texts]

NoBody == [receiver_email |-> <<>>, subject |-> <<>>, body_text |-> <<>>]

NonEmptyParts(s) == \A i \in 1..Len(Split(s, ".")) : Split(s, ".")[i] # <<>>

(* receiver_email: EmailStr.  The syntax check of the field, as far as the *)
(* alphabet of the inputs goes: one "@", a dot-separated local part and a  *)
(* domain of at least two labels, no label empty.                          *)
EmailStrValid(s) ==
    LET parts == Split(s, "@") IN
    /\ Len(parts) = 2
    /\ parts[1] # <<>> /\ NonEmptyParts(parts[1])
    /\ Len(Split(parts[2], ".")) >= 2 /\ NonEmptyParts(parts[2])

----------------------------------------------------------------------------
(* Responses. *)

NoResp == [status |-> 0, kind |-> "none", body |-> <<>>, code |-> 0]

(* return {...}: 200 with a JSON body *)
Ok(body, code) == [status |-> 200, kind |-> "json", body |-> body, code |-> code]

(* raise HTTPException(status_code=..., detail=...) *)
HTTPException(status, detail) ==
    [status |-> status, kind |-> "http_exception", body |-> detail, code |-> 0]

(* FastAPI's answer to a body that fails the EmailRequest validation. *)
RequestValidationError ==
    [status |-> 422, kind |-> "validation_error", body |-> <<>>, code |-> 0]

(* The server's answer to an exception that leaves a handler. *)
ServerError ==
    [status |-> 500, kind |-> "unhandled", body |-> <<"Internal Server Error">>,
     code |-> 0]

----------------------------------------------------------------------------
(* Exceptions: a class and str(e).  Parent is the base class of each class *)
(* the external calls raise; "except C" catches every subclass of C.       *)

NotCalled == [cls |-> "NotCalled", msg |-> ""]
Returned == [cls |-> "Returned", msg |-> ""]

Parent(c) ==
    CASE c = "MessageRejected" -> "ClientError"
      [] c = "ThrottlingException" -> "ClientError"
      [] c = "ClientError" -> "Exception"
      [] c = "NoCredentialsError" -> "BotoCoreError"
      [] c = "PartialCredentialsError" -> "BotoCoreError"
      [] c = "EndpointConnectionError" -> "ConnectionError"
      [] c = "ConnectTimeoutError" -> "ConnectionError"
      [] c = "ConnectionError" -> "BotoCoreError"
      [] c = "ParamValidationError" -> "BotoCoreError"
      [] c = "BotoCoreError" -> "Exception"
      [] c = "NXDOMAIN" -> "DNSException"
      [] c = "NoAnswer" -> "DNSException"
      [] c = "LifetimeTimeout" -> "DNSException"
      [] c = "DNSException" -> "Exception"
      [] c = "Timeout" -> "RequestException"
      [] c = "RequestsConnectionError" -> "RequestException"
      [] c = "RequestException" -> "Exception"
      [] OTHER -> "BaseException"

RECURSIVE IsInstance(_, _)
IsInstance(c, base) ==
    \/ c = base
    \/ c # "BaseException" /\ IsInstance(Parent(c), base)

Causes == {"cause-1", "cause-2"}

(* What dns.resolver.resolve(domain, "MX") can raise. *)
ResolveRaises == {"NXDOMAIN", "NoAnswer", "LifetimeTimeout"}

(* What ses_client.send_email(...) can raise. *)
SendRaises ==
    {"MessageRejected", "ThrottlingException", "NoCredentialsError",
     "PartialCredentialsError", "EndpointConnectionError",
     "ConnectTimeoutError", "ClientError", "ParamValidationError"}

(* What requests.get(url, timeout=5) can raise. *)
GetRaises == {"Timeout", "RequestsConnectionError"}

Raised(classes) == [cls : classes, msg : Causes]

(* A variant of SesExceptions: the client defines no ThrottlingException. *)
SesExceptionsNoThrottling == {"MessageRejected"}

(* The names ses_client.exceptions resolves: the two the handler's except  *)
(* clauses look up there.  A name the client does not define makes the     *)
(* lookup itself raise AttributeError while the clause is being matched.   *)
SesExceptions == {"MessageRejected", "ThrottlingException"}

----------------------------------------------------------------------------
(* validate_email_domain, app.py 27-37 *)

(* A variant of DomainOf: the piece before the first "@". *)
DomainOfFirst(email) == Split(email, "@")[1]

(* domain = email.split("@")[-1] *)
DomainOf(email) == LET parts == Split(email, "@") IN parts[Len(parts)]

(* detail=f"Domain '{domain}' has no MX records or cannot receive email" *)
DomainDetail(d) ==
    <<"Domain '">> \o d \o <<"' has no MX records or cannot receive email">>

----------------------------------------------------------------------------
(* send_email, app.py 40-90 *)

(* A variant of SendArgs: the sender is a destination too. *)
SendArgsCopySender(source, r) ==
    [Source |-> source,
     ToAddresses |-> <<r.receiver_email, source>>,
     Subject |-> r.subject,
     Text |-> r.body_text]

(* The call of lines 53-60. *)
SendArgs(source, r) ==
    [Source |-> source,
     ToAddresses |-> <<r.receiver_email>>,
     Subject |-> r.subject,
     Text |-> r.body_text]

(* return {"message": f"Email successfully sent to {req.receiver_email}"} *)
SentMessage(r) == <<"Email successfully sent to ">> \o r.receiver_email

(* A variant of ExceptClauses: the catch-all clause comes first. *)
ExceptClausesCatchAllFirst ==
    << [ns |-> "import", cls |-> "Exception", status |-> 500, cause |-> TRUE,
        detail |-> <<"Unexpected error: ">>],
       [ns |-> "ses", cls |-> "MessageRejected", status |-> 400, cause |-> FALSE,
        detail |-> <<"Email rejected by AWS SES (unverified sender/recipient or invalid content)">>],
       [ns |-> "ses", cls |-> "ThrottlingException", status |-> 429, cause |-> FALSE,
        detail |-> <<"AWS SES rate limit exceeded. Please try again later.">>],
       [ns |-> "import", cls |-> "NoCredentialsError", status |-> 401, cause |-> FALSE,
        detail |-> <<"AWS credentials not found">>],
       [ns |-> "import", cls |-> "PartialCredentialsError", status |-> 401, cause |-> FALSE,
        detail |-> <<"Incomplete AWS credentials">>],
       [ns |-> "import", cls |-> "EndpointConnectionError", status |-> 503, cause |-> FALSE,
        detail |-> <<"Unable to reach AWS SES endpoint (check region or network)">>] >>

(* The except clauses of lines 64-90, in the order they are written.  ns   *)
(* is where the class is looked up: ses_client.exceptions or the imports.  *)
ExceptClauses ==
    << [ns |-> "ses", cls |-> "MessageRejected", status |-> 400, cause |-> FALSE,
        detail |-> <<"Email rejected by AWS SES (unverified sender/recipient or invalid content)">>],
       [ns |-> "ses", cls |-> "ThrottlingException", status |-> 429, cause |-> FALSE,
        detail |-> <<"AWS SES rate limit exceeded. Please try again later.">>],
       [ns |-> "import", cls |-> "NoCredentialsError", status |-> 401, cause |-> FALSE,
        detail |-> <<"AWS credentials not found">>],
       [ns |-> "import", cls |-> "PartialCredentialsError", status |-> 401, cause |-> FALSE,
        detail |-> <<"Incomplete AWS credentials">>],
       [ns |-> "import", cls |-> "EndpointConnectionError", status |-> 503, cause |-> FALSE,
        detail |-> <<"Unable to reach AWS SES endpoint (check region or network)">>],
       [ns |-> "import", cls |-> "Exception", status |-> 500, cause |-> TRUE,
        detail |-> <<"Unexpected error: ">>] >>

(* A variant of Dispatch: only the class named first is matched exactly,   *)
(* every other exception is left to propagate.                             *)
RECURSIVE DispatchExact(_, _)
DispatchExact(e, i) ==
    IF i > Len(ExceptClauses) THEN ServerError
    ELSE LET h == ExceptClauses[i] IN
         IF e.cls = h.cls
         THEN HTTPException(h.status,
                            IF h.cause THEN h.detail \o <<e.msg>> ELSE h.detail)
         ELSE DispatchExact(e, i + 1)

(* Python's matching of a raised exception against the clauses from the    *)
(* i-th on: each clause's class expression is evaluated, then the          *)
(* exception is tested against it; the first clause that matches handles.  *)
RECURSIVE Dispatch(_, _)
Dispatch(e, i) ==
    IF i > Len(ExceptClauses) THEN ServerError
    ELSE LET h == ExceptClauses[i] IN
         IF h.ns = "ses" /\ h.cls \notin SesExceptions THEN ServerError
         ELSE IF IsInstance(e.cls, h.cls)
              THEN HTTPException(h.status,
                                 IF h.cause THEN h.detail \o <<e.msg>> ELSE h.detail)
              ELSE Dispatch(e, i + 1)

(* The outcome of the try statement of lines 52-90. *)
SendResponse(r, out) ==
    IF out = Returned THEN Ok(SentMessage(r), 0) ELSE Dispatch(out, 1)

----------------------------------------------------------------------------
(* test_aws, app.py 94-104 *)

NoProbe == [status_code |-> 0, text |-> <<>>, exc |-> NotCalled]

(* url = f"https://email.{region}.amazonaws.com" *)
Url == <<"https://email.">> \o region \o <<".amazonaws.com">>

PatternText(n, k) == [i \in 1..n |-> IF i % k = 0 THEN "x" ELSE "y"]

ProbeTexts ==
    {PatternText(n, k) : n \in 0..(TextLimit + MaxOver),
                         k \in {2, TextLimit, TextLimit + 1}}

ProbeOutcomes ==
    [status_code : {200, 403}, text : ProbeTexts, exc : {Returned}]
    \cup [status_code : {0}, text : {<<>>}, exc : Raised(GetRaises)]

(* Lines 102-104. *)
ProbeResponse(p) ==
    IF p.exc = Returned
    THEN Ok(Slice(p.text, TextLimit), p.status_code)
    ELSE IF IsInstance(p.exc.cls, "Exception")
         THEN HTTPException(500, <<"Network test failed: ", p.exc.msg>>)
         ELSE ServerError

----------------------------------------------------------------------------
(* The state machine. *)

Init ==
    /\ env \in [SOURCE_EMAIL : SourceEmails, AWS_REGION : Regions]
    /\ pc = "idle"
    /\ op = "none"
    /\ raw = NoBody
    /\ req = NoBody
    /\ source_email = <<>>
    /\ domain = <<>>
    /\ mxOut = NotCalled
    /\ sendOut = NotCalled
    /\ probe = NoProbe
    /\ mxCalls = <<>>
    /\ sendCalls = <<>>
    /\ getCalls = <<>>
    /\ resp = NoResp

(* A POST /send-email arrives with a JSON body. *)
PostSendEmail ==
    /\ pc = "idle"
    /\ \E b \in Bodies : raw' = b
    /\ op' = "send-email"
    /\ pc' = "parse"
    /\ UNCHANGED <<env, req, source_email, domain, mxOut, sendOut, probe,
                   mxCalls, sendCalls, getCalls, resp>>

(* The body is validated into the handler's argument (lines 20-23, 41):    *)
(* a body that is no EmailRequest is answered 422 and the handler is not   *)
(* called.                                                                 *)
ParseBody ==
    /\ pc = "parse"
    /\ IF EmailStrValid(raw.receiver_email)
       THEN /\ req' = raw
            /\ pc' = "L42"
            /\ resp' = resp
       ELSE /\ req' = req
            /\ pc' = "done"
            /\ resp' = RequestValidationError
    /\ UNCHANGED <<env, op, raw, source_email, domain, mxOut, sendOut, probe,
                   mxCalls, sendCalls, getCalls>>

(* Lines 42-45. *)
CheckSource ==
    /\ pc = "L42"
    /\ source_email' = Getenv(env.SOURCE_EMAIL)
    /\ IF Falsy(source_email')
       THEN /\ resp' = HTTPException(500, <<"Source email not configured in environment">>)
            /\ pc' = "done"
       ELSE /\ resp' = resp
            /\ pc' = "L47"
    /\ UNCHANGED <<env, op, raw, req, domain, mxOut, sendOut, probe,
                   mxCalls, sendCalls, getCalls>>

(* Lines 47-48. *)
CheckContent ==
    /\ pc = "L47"
    /\ IF Falsy(Strip(req.subject)) \/ Falsy(Strip(req.body_text))
       THEN /\ resp' = HTTPException(400, <<"Subject and body cannot be empty">>)
            /\ pc' = "done"
       ELSE /\ resp' = resp
            /\ pc' = "L50"
    /\ UNCHANGED <<env, op, raw, req, source_email, domain, mxOut, sendOut,
                   probe, mxCalls, sendCalls, getCalls>>

(* Lines 50, 29-31: the domain is cut out and the MX lookup is made; it    *)
(* returns an answer or raises.                                            *)
ResolveMX ==
    /\ pc = "L50"
    /\ domain' = DomainOf(req.receiver_email)
    /\ mxCalls' = Append(mxCalls, domain')
    /\ \E out \in {Returned} \cup Raised(ResolveRaises) : mxOut' = out
    /\ pc' = "L32"
    /\ UNCHANGED <<env, op, raw, req, source_email, sendOut, probe,
                   sendCalls, getCalls, resp>>

(* A variant of ValidateReturn: the lookup's failure is swallowed. *)
ValidateReturnSwallow ==
    /\ pc = "L32"
    /\ pc' = "L52"
    /\ UNCHANGED <<env, op, raw, req, source_email, domain, mxOut, sendOut,
                   probe, mxCalls, sendCalls, getCalls, resp>>

(* Lines 32-37: return True, or except Exception: raise HTTPException(400). *)
ValidateReturn ==
    /\ pc = "L32"
    /\ IF mxOut = Returned
       THEN /\ pc' = "L52"
            /\ resp' = resp
       ELSE IF IsInstance(mxOut.cls, "Exception")
            THEN /\ pc' = "done"
                 /\ resp' = HTTPException(400, DomainDetail(domain))
            ELSE /\ pc' = "done"
                 /\ resp' = ServerError
    /\ UNCHANGED <<env, op, raw, req, source_email, domain, mxOut, sendOut,
                   probe, mxCalls, sendCalls, getCalls>>

(* Lines 53-60: the provider's send operation is called; it returns or     *)
(* raises.                                                                 *)
SesSendEmail ==
    /\ pc = "L52"
    /\ sendCalls' = Append(sendCalls, SendArgs(source_email, req))
    /\ \E out \in {Returned} \cup Raised(SendRaises) : sendOut' = out
    /\ pc' = "L61"
    /\ UNCHANGED <<env, op, raw, req, source_email, domain, mxOut, probe,
                   mxCalls, getCalls, resp>>

(* A variant of MapSendResult: an unreachable endpoint is tried once more. *)
MapSendResultRetry ==
    /\ pc = "L61"
    /\ IF sendOut.cls = "EndpointConnectionError" /\ Len(sendCalls) < 2
       THEN /\ pc' = "L52"
            /\ resp' = resp
       ELSE /\ pc' = "done"
            /\ resp' = SendResponse(req, sendOut)
    /\ UNCHANGED <<env, op, raw, req, source_email, domain, mxOut, sendOut,
                   probe, mxCalls, sendCalls, getCalls>>

(* Lines 61-90: the success message, or the except clause that matches. *)
MapSendResult ==
    /\ pc = "L61"
    /\ resp' = SendResponse(req, sendOut)
    /\ pc' = "done"
    /\ UNCHANGED <<env, op, raw, req, source_email, domain, mxOut, sendOut,
                   probe, mxCalls, sendCalls, getCalls>>

(* A GET /test-aws arrives. *)
GetTestAws ==
    /\ pc = "idle"
    /\ op' = "test-aws"
    /\ pc' = "L100"
    /\ UNCHANGED <<env, raw, req, source_email, domain, mxOut, sendOut, probe,
                   mxCalls, sendCalls, getCalls, resp>>

(* Lines 100-101: the probe of the regional endpoint returns a response or *)
(* raises.                                                                 *)
Probe ==
    /\ pc = "L100"
    /\ getCalls' = Append(getCalls, Url)
    /\ \E p \in ProbeOutcomes : probe' = p
    /\ pc' = "L102"
    /\ UNCHANGED <<env, op, raw, req, source_email, domain, mxOut, sendOut,
                   mxCalls, sendCalls, resp>>

(* Lines 102-104. *)
ProbeReturn ==
    /\ pc = "L102"
    /\ resp' = ProbeResponse(probe)
    /\ pc' = "done"
    /\ UNCHANGED <<env, op, raw, req, source_email, domain, mxOut, sendOut,
                   probe, mxCalls, sendCalls, getCalls>>

(* The response is delivered; the request's frame is gone and the server   *)
(* waits for the next request.  The environment stays as it is.            *)
Complete ==
    /\ pc = "done"
    /\ pc' = "idle"
    /\ op' = "none"
    /\ raw' = NoBody
    /\ req' = NoBody
    /\ source_email' = <<>>
    /\ domain' = <<>>
    /\ mxOut' = NotCalled
    /\ sendOut' = NotCalled
    /\ probe' = NoProbe
    /\ mxCalls' = <<>>
    /\ sendCalls' = <<>>
    /\ getCalls' = <<>>
    /\ resp' = NoResp
    /\ UNCHANGED env

Next ==
    \/ PostSendEmail
    \/ ParseBody
    \/ CheckSource
    \/ CheckContent
    \/ ResolveMX
    \/ ValidateReturn
    \/ SesSendEmail
    \/ MapSendResult
    \/ GetTestAws
    \/ Probe
    \/ ProbeReturn
    \/ Complete

Spec == Init /\ [][Next]_vars

----------------------------------------------------------------------------
(* Vocabulary of the properties. *)

SendEmailRequest == op = "send-email"
SendEmailDone == op = "send-email" /\ pc = "done"
TestAwsDone == op = "test-aws" /\ pc = "done"

(* The body is an EmailRequest, so the handler is called with it. *)
BodyValid == EmailStrValid(raw.receiver_email)

SourceMissing == ~env.SOURCE_EMAIL.set \/ env.SOURCE_EMAIL.value = <<>>

(* Empty or whitespace-only. *)
Blank(s) == \A i \in 1..Len(s) : s[i] \in Whitespace

ContentBlank == Blank(raw.subject) \/ Blank(raw.body_text)

NoExternalCall == mxCalls = <<>> /\ sendCalls = <<>>

(* The text after the last "@" of s (all of s when it holds none). *)
AfterLastAt(s) ==
    LET ats == {i \in 1..Len(s) : s[i] = "@"}
        last == IF ats = {} THEN 0 ELSE CHOOSE i \in ats : \A j \in ats : j <= i
    IN [k \in 1..(Len(s) - last) |-> s[last + k]]

MappedStatuses == {400, 401, 429, 500, 503}

SourceNotConfigured ==
    HTTPException(500, <<"Source email not configured in environment">>)

ContentEmpty == HTTPException(400, <<"Subject and body cannot be empty">>)

----------------------------------------------------------------------------
(* C1 *)

(* C1, as stated: with SOURCE_EMAIL unset or empty every /send-email call  *)
(* ends 500 and neither the MX lookup nor the provider send is invoked,    *)
(* whatever subject, body_text and receiver_email are.                     *)
C1_AsStated ==
    (SendEmailRequest /\ SourceMissing) =>
        /\ NoExternalCall
        /\ pc = "done" => resp.status = 500

(* C1, amended: with SOURCE_EMAIL unset or empty neither the MX lookup nor *)
(* the provider send is invoked in any /send-email request; the request    *)
(* ends 500 "Source email not configured in environment" when its body is  *)
(* an EmailRequest, and 422 when it is not.                                *)
C1_SourceMissing ==
    (SendEmailRequest /\ SourceMissing) =>
        /\ NoExternalCall
        /\ pc = "done" =>
              IF BodyValid THEN resp = SourceNotConfigured ELSE resp.status = 422

C1_Witness ==
    /\ SendEmailDone /\ SourceMissing /\ BodyValid
    /\ ~ContentBlank
    /\ resp.status = 500

----------------------------------------------------------------------------
(* C2 *)

(* C2, as stated: a /send-email request whose subject or body_text is      *)
(* empty or whitespace-only ends 400, whatever else holds of the request.  *)
C2_AsStated == (SendEmailDone /\ ContentBlank) => resp.status = 400

(* C2, amended: a /send-email request whose body is an EmailRequest, made  *)
(* while SOURCE_EMAIL is configured, and whose subject or body_text is     *)
(* empty or whitespace-only ends 400 "Subject and body cannot be empty"    *)
(* without the MX lookup being made; with SOURCE_EMAIL missing it ends 500 *)
(* and with a body that is no EmailRequest 422.                            *)
C2_BlankContent ==
    (SendEmailDone /\ ContentBlank) =>
        /\ NoExternalCall
        /\ resp = (IF ~BodyValid THEN RequestValidationError
                   ELSE IF SourceMissing THEN SourceNotConfigured
                   ELSE ContentEmpty)

C2_Witness ==
    /\ SendEmailDone /\ BodyValid /\ ~SourceMissing
    /\ raw.subject = <<" ", " ">> /\ ~Blank(raw.body_text)
    /\ resp.status = 400

----------------------------------------------------------------------------
(* C3 *)

C3_Status(cls) ==
    CASE cls = "MessageRejected" -> 400
      [] cls = "ThrottlingException" -> 429
      [] cls = "NoCredentialsError" -> 401
      [] cls = "PartialCredentialsError" -> 401
      [] cls = "EndpointConnectionError" -> 503

C3_Classes ==
    {"MessageRejected", "ThrottlingException", "NoCredentialsError",
     "PartialCredentialsError", "EndpointConnectionError"}

----------------------------------------------------------------------------
(* C4 *)

(* C4: a valid request whose MX lookup succeeds and whose provider send    *)
(* reports success ends 200 with the message "Email successfully sent to"  *)
(* followed by the request's receiver_email, and the provider send was     *)
(* invoked once, with that address as its only destination.                *)
C4_Success ==
    (SendEmailDone /\ sendOut = Returned) =>
        /\ resp.status = 200
        /\ resp.body = <<"Email successfully sent to ">> \o raw.receiver_email
        /\ Len(sendCalls) = 1
        /\ sendCalls[1].ToAddresses = <<raw.receiver_email>>
        /\ sendCalls[1].Source = env.SOURCE_EMAIL.value

C4_Witness ==
    /\ SendEmailDone /\ ~SourceMissing /\ ~ContentBlank
    /\ mxOut = Returned /\ sendOut = Returned
    /\ resp.status = 200

----------------------------------------------------------------------------
(* C5 *)

(* C5: when the MX lookup of a request that passed the configuration and   *)
(* content checks raises, the request ends 400 with a message naming the   *)
(* text after the last "@" of receiver_email, and the provider send is not *)
(* invoked.                                                                *)
C5_DomainUnresolvable ==
    (SendEmailDone /\ mxOut.cls \in ResolveRaises) =>
        /\ resp.status = 400
        /\ resp.body = <<"Domain '">> \o AfterLastAt(raw.receiver_email)
                       \o <<"' has no MX records or cannot receive email">>
        /\ mxCalls = <<AfterLastAt(raw.receiver_email)>>
        /\ sendCalls = <<>>

C5_Witness ==
    /\ SendEmailDone /\ ~SourceMissing /\ ~ContentBlank
    /\ mxOut.cls = "NXDOMAIN"
    /\ resp.status = 400
    /\ AfterLastAt(raw.receiver_email) # raw.receiver_email

----------------------------------------------------------------------------
(* C6 *)

ExternalCallFailed ==
    \/ pc = "L32" /\ mxOut # Returned
    \/ pc = "L61" /\ sendOut # Returned

(* C6: no retry.  In one /send-email request the provider send and the MX  *)
(* lookup are each invoked at most once, and the step after a failure of   *)
(* either is the request's terminal error response, with no further call.  *)
C6_NoRetry ==
    [][ /\ Len(mxCalls') <= 1
        /\ Len(sendCalls') <= 1
        /\ ExternalCallFailed =>
              /\ pc' = "done"
              /\ resp'.status >= 400
              /\ mxCalls' = mxCalls
              /\ sendCalls' = sendCalls ]_vars

C6_Witness ==
    /\ SendEmailDone
    /\ sendOut.cls = "EndpointConnectionError"
    /\ Len(sendCalls) = 1 /\ Len(mxCalls) = 1
    /\ resp.status = 503

----------------------------------------------------------------------------
(* C7 *)

----------------------------------------------------------------------------
(* C8 *)

(* C8: /test-aws never raises past its boundary.  When the probe returns,  *)
(* the response is 200 with the probed status code and the first 100       *)
(* characters of the probed body (all of it when shorter); when the probe  *)
(* raises, the response is 500 "Network test failed: <cause>".  Neither    *)
(* the MX lookup nor the provider send is called.                          *)
C8_TestAws ==
    TestAwsDone =>
        /\ NoExternalCall
        /\ resp.kind # "unhandled"
        /\ IF probe.exc = Returned
           THEN /\ resp.status = 200
                /\ resp.code = probe.status_code
                /\ Len(resp.body) = Min(Len(probe.text), 100)
                /\ \A i \in 1..Len(resp.body) : resp.body[i] = probe.text[i]
           ELSE /\ resp.status = 500
                /\ resp.body = <<"Network test failed: ", probe.exc.msg>>

C8_Witness ==
    /\ TestAwsDone
    /\ probe.exc = Returned
    /\ Len(probe.text) > 100
    /\ Len(resp.body) = 100
    /\ probe.text[101] # probe.text[100]

----------------------------------------------------------------------------
(* C9 *)

(* C9: the handler checks configuration, then content, then the domain,    *)
(* and the first failure wins: a missing source with blank content ends    *)
(* 500; blank content ends 400 "Subject and body cannot be empty" without  *)
(* the MX lookup, whatever the domain; the provider send is invoked only   *)
(* when all three checks have passed.                                      *)
C9_CheckOrder ==
    (SendEmailRequest /\ BodyValid) =>
        /\ (pc = "done" /\ SourceMissing) => resp = SourceNotConfigured
        /\ (pc = "done" /\ ~SourceMissing /\ ContentBlank) =>
              resp = ContentEmpty /\ mxCalls = <<>>
        /\ sendCalls # <<>> =>
              ~SourceMissing /\ ~ContentBlank /\ mxOut = Returned

C9_Witness ==
    /\ SendEmailDone /\ BodyValid
    /\ SourceMissing /\ ContentBlank
    /\ resp.status = 500

----------------------------------------------------------------------------
(* C10 *)

C10_Categories ==
    << [cls |-> "MessageRejected", status |-> 400],
       [cls |-> "ThrottlingException", status |-> 429],
       [cls |-> "NoCredentialsError", status |-> 401],
       [cls |-> "PartialCredentialsError", status |-> 401],
       [cls |-> "EndpointConnectionError", status |-> 503] >>

C10_Matching(cls) ==
    {i \in 1..Len(C10_Categories) : IsInstance(cls, C10_Categories[i].cls)}

====
